---- MODULE Spec2Model ----
(***************************************************************************)
(* MultiheadAttention / DynamicMultiheadAttention with iRPE                *)
(* (mmrazor/models/architectures/dynamic_op/bricks/dynamic_attention.py).  *)
(*                                                                         *)
(* Tensors are modelled by their shape; the value of a forward call is the *)
(* shape of the returned tensor together with the ordered list of the      *)
(* operators that produced it and the parameter rows it read.  A call that *)
(* raises is modelled by the exception's type and the line that raised it. *)
(***************************************************************************)
EXTENDS Integers, Sequences, FiniteSets, TLC

\* static, dyn: the static and the dynamic module (the outcome of the last
\*              constructor call of each class)
\* sres, dres:  the outcome of the last forward call on each
\* built:       the parameters of each module as its constructor left them
VARIABLES static, dyn, sres, dres, built

vars == <<static, dyn, sres, dres, built>>

-----------------------------------------------------------------------------
(* Bounds and program constants *)

\* parameter initialisations are drawn from 1..MaxSeed
MaxSeed == 2

\* default of max_relative_position
DefaultMaxRelativePosition == 14

\* the inputs of the constructors
\* the (embed_dims, num_heads) pairs a constructor call is made with
Configs == { <<64, 8>>, <<64, 1>>, <<65, 8>>, <<4, 8>> }
NumHeadsChoices == { c[2] : c \in Configs }

\* input_dims: 0 stands for None

\* the option profiles a constructor call is made with
Options ==
    { [input_dims |-> 0, relative_position |-> TRUE,
       max_relative_position |-> DefaultMaxRelativePosition, v_shortcut |-> FALSE],
      [input_dims |-> 0, relative_position |-> FALSE,
       max_relative_position |-> 7, v_shortcut |-> FALSE],
      [input_dims |-> 0, relative_position |-> FALSE,
       max_relative_position |-> DefaultMaxRelativePosition, v_shortcut |-> TRUE],
      [input_dims |-> 32, relative_position |-> TRUE,
       max_relative_position |-> DefaultMaxRelativePosition, v_shortcut |-> TRUE] }

\* the shape (batch, seq_len) of the inputs of forward
BatchSize == 2
SeqLen == 10

-----------------------------------------------------------------------------
(* Shapes *)

RECURSIVE Numel(_)
Numel(s) == IF s = <<>> THEN 1 ELSE Head(s) * Numel(Tail(s))

Last(s) == s[Len(s)]
Front(s) == SubSeq(s, 1, Len(s) - 1)

\* Tensor.transpose(i, j), dimensions counted from 0
Transpose(s, i, j) ==
    [d \in 1..Len(s) |-> IF d = i + 1 THEN s[j + 1] ELSE IF d = j + 1 THEN s[i + 1] ELSE s[d]]

\* Tensor.permute(p), dimensions counted from 0
Permute(s, p) == [d \in 1..Len(p) |-> s[p[d] + 1]]

\* Tensor.view / Tensor.reshape to t, where -1 stands for the inferred
\* dimension; <<>> when the element counts do not fit (RuntimeError)
Reshape(s, t) ==
    LET known == Numel([d \in 1..Len(t) |-> IF t[d] = -1 THEN 1 ELSE t[d]])
        infer == \E d \in 1..Len(t) : t[d] = -1
    IN IF infer
       THEN IF known > 0 /\ Numel(s) % known = 0
            THEN [d \in 1..Len(t) |-> IF t[d] = -1 THEN Numel(s) \div known ELSE t[d]]
            ELSE <<>>
       ELSE IF Numel(s) = known THEN t ELSE <<>>

\* the shape of a + b under broadcasting; <<>> when the shapes do not broadcast
Broadcast(a, b) ==
    LET n == IF Len(a) > Len(b) THEN Len(a) ELSE Len(b)
        pa == [d \in 1..n |-> IF d <= n - Len(a) THEN 1 ELSE a[d - (n - Len(a))]]
        pb == [d \in 1..n |-> IF d <= n - Len(b) THEN 1 ELSE b[d - (n - Len(b))]]
    IN IF \A d \in 1..n : pa[d] = pb[d] \/ pa[d] = 1 \/ pb[d] = 1
       THEN [d \in 1..n |-> IF pa[d] = 1 THEN pb[d] ELSE pa[d]]
       ELSE <<>>

\* the shape of a @ b for tensors of at least two dimensions; <<>> when the
\* inner dimensions differ or the batch dimensions do not broadcast
MatMul(a, b) ==
    LET ba == SubSeq(a, 1, Len(a) - 2)
        bb == SubSeq(b, 1, Len(b) - 2)
        bc == Broadcast(ba, bb)
    IN IF a[Len(a)] # b[Len(b) - 1] THEN <<>>
       ELSE IF bc = <<>> /\ (ba # <<>> \/ bb # <<>>) THEN <<>>
       ELSE bc \o <<a[Len(a) - 1], b[Len(b)]>>

\* Tensor.squeeze(d): drops dimension d (counted from 0) when it is 1
Squeeze(s, d) ==
    IF s[d + 1] = 1
    THEN [i \in 1..(Len(s) - 1) |-> IF i <= d THEN s[i] ELSE s[i + 1]]
    ELSE s

-----------------------------------------------------------------------------
(* Construction *)

NoModule == [cls |-> "none"]

\* nn.Linear(in_features, out_features): a weight of out_features rows and
\* in_features columns with its bias, initialised from seed
Linear(in_features, out_features, seed) ==
    [rows |-> out_features, cols |-> in_features, seed |-> seed]

\* RelativePosition2D(num_heads, max_relative_position) and its dynamic
\* variant: the table is built from the two constructor arguments
RelativePosition2D(num_heads, max_relative_position, seed, dynamic) ==
    [arg |-> num_heads, max |-> max_relative_position, seed |-> seed,
     dynamic |-> dynamic]

NoTable == [arg |-> 0, max |-> 0, seed |-> 0, dynamic |-> FALSE]

\* MultiheadAttention.__init__; head_dims ** -0.5 raises ZeroDivisionError
\* when embed_dims // num_heads is 0
MultiheadAttentionInit(embed_dims, num_heads, opt, seed) ==
    LET input_dims == IF opt.input_dims # 0 THEN opt.input_dims ELSE embed_dims
        head_dims == embed_dims \div num_heads
    IN IF head_dims = 0
       THEN [cls |-> "raise", err |-> "ZeroDivisionError", line |-> 71,
             embed_dims |-> embed_dims, num_heads |-> num_heads]
       ELSE [cls |-> "MultiheadAttention",
             input_dims |-> input_dims,
             embed_dims |-> embed_dims,
             num_heads |-> num_heads,
             v_shortcut |-> opt.v_shortcut,
             relative_position |-> opt.relative_position,
             max_relative_position |-> opt.max_relative_position,
             head_dims |-> head_dims,
             w_qs |-> Linear(input_dims, num_heads * head_dims, seed),
             w_ks |-> Linear(input_dims, num_heads * head_dims, seed),
             w_vs |-> Linear(input_dims, num_heads * head_dims, seed),
             proj |-> Linear(embed_dims, embed_dims, seed),
             rel_pos_embed_k |->
                 IF opt.relative_position
                 THEN RelativePosition2D(num_heads, opt.max_relative_position, seed, FALSE)
                 ELSE NoTable,
             rel_pos_embed_v |->
                 IF opt.relative_position
                 THEN RelativePosition2D(num_heads, opt.max_relative_position, seed, FALSE)
                 ELSE NoTable]

\* DynamicMultiheadAttention.__init__: the static constructor, an empty
\* mutable_attrs, and dynamic relative position tables
DynamicMultiheadAttentionInit(embed_dims, num_heads, opt, seed) ==
    LET m == MultiheadAttentionInit(embed_dims, num_heads, opt, seed)
    IN IF m.cls = "raise" THEN m
       ELSE [cls |-> "DynamicMultiheadAttention",
             input_dims |-> m.input_dims,
             embed_dims |-> m.embed_dims,
             num_heads |-> m.num_heads,
             v_shortcut |-> m.v_shortcut,
             relative_position |-> m.relative_position,
             max_relative_position |-> m.max_relative_position,
             head_dims |-> m.head_dims,
             w_qs |-> m.w_qs, w_ks |-> m.w_ks, w_vs |-> m.w_vs, proj |-> m.proj,
             rel_pos_embed_k |->
                 IF m.relative_position
                 THEN RelativePosition2D(m.num_heads, m.max_relative_position, seed, TRUE)
                 ELSE NoTable,
             rel_pos_embed_v |->
                 IF m.relative_position
                 THEN RelativePosition2D(m.num_heads, m.max_relative_position, seed, TRUE)
                 ELSE NoTable,
             mutable_attrs |-> <<>>,
             converted_from |-> NoModule]

\* the options convert_from leaves to the constructor's defaults
DefaultOptions ==
    [input_dims |-> 0, relative_position |-> TRUE,
     max_relative_position |-> DefaultMaxRelativePosition, v_shortcut |-> FALSE]

\* the structural hyperparameters of a module
Hyperparameters(m) ==
    [cls |-> "hyperparameters",
     input_dims |-> m.input_dims, embed_dims |-> m.embed_dims,
     num_heads |-> m.num_heads, head_dims |-> m.head_dims,
     v_shortcut |-> m.v_shortcut, relative_position |-> m.relative_position,
     max_relative_position |-> m.max_relative_position]

\* DynamicMultiheadAttention.convert_from(module): cls(embed_dims=module.embed_dims,
\* num_heads=module.num_heads).  converted_from records the hyperparameters
\* of the argument.
convert_from(module, seed) ==
    LET d == DynamicMultiheadAttentionInit(module.embed_dims, module.num_heads,
                                           DefaultOptions, seed)
    IN [d EXCEPT !.converted_from = Hyperparameters(module)]

\* the attributes of a module that hold parameters
Parameters(m) ==
    [w_qs |-> m.w_qs, w_ks |-> m.w_ks, w_vs |-> m.w_vs, proj |-> m.proj,
     rel_pos_embed_k |-> m.rel_pos_embed_k, rel_pos_embed_v |-> m.rel_pos_embed_v]

\* the instance attributes the two constructors assign
Attributes(m) ==
    {"input_dims", "embed_dims", "num_heads", "v_shortcut", "relative_position",
     "max_relative_position", "head_dims", "scale", "w_qs", "w_ks", "w_vs",
     "attn_drop", "proj", "proj_drop", "out_drop"}
    \cup (IF m.relative_position THEN {"rel_pos_embed_k", "rel_pos_embed_v"} ELSE {})
    \cup (IF m.cls = "DynamicMultiheadAttention" THEN {"mutable_attrs"} ELSE {})

-----------------------------------------------------------------------------
(* The frame of a forward call *)

\* self, the argument, the local variables (shapes; <<>> is unassigned), and
\*   trace: the operators applied so far, in order
\*   rows:  the number of leading rows read of each projection weight
\*   heads: the head count the reshapes used
\*   nread: how often a mutable's current_choice was read
\*   err, line: the exception raised and the line raising it ("" is none)
\*   tuple: whether the returned object is a tuple wrapping the tensor
Frame(self, x) ==
    [self |-> self, arg |-> x, x |-> x, B |-> 0, N |-> 0,
     q |-> <<>>, k |-> <<>>, v |-> <<>>, attn |-> <<>>,
     trace |-> <<>>, rows |-> [w_qs |-> 0, w_ks |-> 0, w_vs |-> 0, proj |-> 0],
     heads |-> 0, nread |-> 0, err |-> "", line |-> 0, tuple |-> FALSE]

Raise(f, err, line) == [f EXCEPT !.err = err, !.line = line]

\* nn.Linear.forward / F.linear on a tensor of shape xs with the first
\* `rows` rows of a weight of `cols` columns
LinearShape(xs, rows, cols) ==
    IF Last(xs) = cols THEN Front(xs) \o <<rows>> ELSE <<>>

\* the lookup of a relative position table for (length_q, length_k): one
\* embedding of the per-head width for every pair of positions
RelativePositionLookup(self, length_q, length_k) ==
    <<length_q, length_k, self.head_dims>>

\* q = proj(x).view(B, N, heads, unit) for one of the three projections
Project(f, name, w, heads, unit, line) ==
    LET y == LinearShape(f.x, w.rows, w.cols)
        r == IF y = <<>> THEN <<>> ELSE Reshape(y, <<f.B, f.N, heads, unit>>)
        g == [f EXCEPT !.trace = Append(@, name), !.rows[name] = w.rows,
                       !.heads = heads]
    IN IF r = <<>> THEN Raise(f, "RuntimeError", line)
       ELSE IF name = "w_qs" THEN [g EXCEPT !.q = r]
       ELSE IF name = "w_ks" THEN [g EXCEPT !.k = r]
       ELSE [g EXCEPT !.v = r]

\* q, k, v = q.transpose(1, 2), k.transpose(1, 2), v.transpose(1, 2)
TransposeHeads(f) ==
    [f EXCEPT !.q = Transpose(f.q, 1, 2), !.k = Transpose(f.k, 1, 2),
              !.v = Transpose(f.v, 1, 2)]

\* attn = (q @ k.transpose(-2, -1)) * self.scale
Scores(f, line) ==
    LET a == MatMul(f.q, Transpose(f.k, 2, 3))
    IN IF a = <<>> THEN Raise(f, "RuntimeError", line)
       ELSE [f EXCEPT !.attn = a, !.trace = Append(@, "scores")]

\* attn = attn + (q.permute(2, 0, 1, 3).reshape(N, heads * B, -1)
\*                @ r_p_k.transpose(2, 1)).transpose(1, 0)
\*                   .reshape(B, heads, N, N) * self.scale
RelPosK(f, heads, line) ==
    LET r_p_k == RelativePositionLookup(f.self, f.N, f.N)
        qr == Reshape(Permute(f.q, <<2, 0, 1, 3>>), <<f.N, heads * f.B, -1>>)
        m == IF qr = <<>> THEN <<>> ELSE MatMul(qr, Transpose(r_p_k, 2, 1))
        t == IF m = <<>> THEN <<>>
             ELSE Reshape(Transpose(m, 1, 0), <<f.B, heads, f.N, f.N>>)
        a == IF t = <<>> THEN <<>> ELSE Broadcast(f.attn, t)
    IN IF a = <<>> THEN Raise(f, "RuntimeError", line)
       ELSE [f EXCEPT !.attn = a, !.trace = Append(@, "rel_pos_embed_k")]

\* attn = attn.softmax(dim=-1)
Softmax(f) == [f EXCEPT !.trace = Append(@, "softmax")]

\* attn = self.attn_drop(attn)
AttnDrop(f) == [f EXCEPT !.trace = Append(@, "attn_drop")]

\* x = (attn @ v).transpose(1, 2).reshape(B, N, width)
Aggregate(f, width, line) ==
    LET a == MatMul(f.attn, f.v)
        r == IF a = <<>> THEN <<>>
             ELSE Reshape(Transpose(a, 1, 2), <<f.B, f.N, width>>)
    IN IF r = <<>> THEN Raise(f, "RuntimeError", line)
       ELSE [f EXCEPT !.x = r, !.trace = Append(@, "aggregate")]

\* x = x + (attn.permute(2, 0, 1, 3).reshape(N, B * heads, -1) @ r_p_v)
\*         .transpose(1, 0).reshape(B, heads, N, -1).transpose(2, 1)
\*         .reshape(B, N, -1)
RelPosV(f, heads, line) ==
    LET r_p_v == RelativePositionLookup(f.self, f.N, f.N)
        t_attn == Reshape(Permute(f.attn, <<2, 0, 1, 3>>), <<f.N, f.B * heads, -1>>)
        m == IF t_attn = <<>> THEN <<>> ELSE MatMul(t_attn, r_p_v)
        t == IF m = <<>> THEN <<>>
             ELSE Reshape(Transpose(m, 1, 0), <<f.B, heads, f.N, -1>>)
        u == IF t = <<>> THEN <<>>
             ELSE Reshape(Transpose(t, 2, 1), <<f.B, f.N, -1>>)
        y == IF u = <<>> THEN <<>> ELSE Broadcast(f.x, u)
    IN IF y = <<>> THEN Raise(f, "RuntimeError", line)
       ELSE [f EXCEPT !.x = y, !.trace = Append(@, "rel_pos_embed_v")]

\* x = self.proj(x): the module's full output projection
Proj(f, line) ==
    LET y == LinearShape(f.x, f.self.proj.rows, f.self.proj.cols)
    IN IF y = <<>> THEN Raise(f, "RuntimeError", line)
       ELSE [f EXCEPT !.x = y, !.trace = Append(@, "proj"),
                      !.rows.proj = f.self.proj.rows]

\* self.proj_drop(x)
ProjDrop(f) == [f EXCEPT !.trace = Append(@, "proj_drop")]

\* self.out_drop(x)
OutDrop(f) == [f EXCEPT !.trace = Append(@, "out_drop")]

\* x = v.squeeze(1) + x
VShortcut(f, line) ==
    LET y == Broadcast(Squeeze(f.v, 1), f.x)
    IN IF y = <<>> THEN Raise(f, "RuntimeError", line)
       ELSE [f EXCEPT !.x = y, !.trace = Append(@, "v_shortcut")]

-----------------------------------------------------------------------------
(* MultiheadAttention.forward *)

Ok(f) == f.err = ""

\* B, N, _ = x.shape
S93(f) ==
    IF Len(f.x) # 3 THEN Raise(f, "ValueError", 93)
    ELSE [f EXCEPT !.B = f.x[1], !.N = f.x[2]]

\* q = self.w_qs(x).view(B, N, self.num_heads, self.head_dims)
S95(f) == Project(f, "w_qs", f.self.w_qs, f.self.num_heads, f.self.head_dims, 95)

\* k = self.w_ks(x).view(B, N, self.num_heads, self.head_dims)
S96(f) == Project(f, "w_ks", f.self.w_ks, f.self.num_heads, f.self.head_dims, 96)

\* v = self.w_vs(x).view(B, N, self.num_heads, self.head_dims)
S97(f) == Project(f, "w_vs", f.self.w_vs, f.self.num_heads, f.self.head_dims, 97)

\* a projection step that stores a re-sized, re-initialised weight back
\* into the module
S120Overwrites(f) ==
    [Proj(f, 120) EXCEPT !.self.proj = Linear(Last(f.x), Last(f.x), 0)]

\* x = self.proj(x)
S120(f) == Proj(f, 120)

\* x = self.out_drop(self.proj_drop(x))
S121(f) == OutDrop(ProjDrop(f))

\* if self.v_shortcut: x = v.squeeze(1) + x
S123(f) == IF f.self.v_shortcut THEN VShortcut(f, 124) ELSE f

MultiheadAttentionForward(self, x) ==
    LET F93 == { S93(f) : f \in {Frame(self, x)} }
        F95 == { IF Ok(f) THEN S95(f) ELSE f : f \in F93 }
        F96 == { IF Ok(f) THEN S96(f) ELSE f : f \in F95 }
        F97 == { IF Ok(f) THEN S97(f) ELSE f : f \in F96 }
        F99 == { IF Ok(f) THEN TransposeHeads(f) ELSE f : f \in F97 }
        F101 == { IF Ok(f) THEN Scores(f, 101) ELSE f : f \in F99 }
        F103 == { IF Ok(f) /\ self.relative_position THEN RelPosK(f, self.num_heads, 105) ELSE f : f \in F101 }
        F109 == { IF Ok(f) THEN Softmax(f) ELSE f : f \in F103 }
        F110 == { IF Ok(f) THEN AttnDrop(f) ELSE f : f \in F109 }
        F111 == { IF Ok(f) THEN Aggregate(f, self.embed_dims, 111) ELSE f : f \in F110 }
        F113 == { IF Ok(f) /\ self.relative_position THEN RelPosV(f, self.num_heads, 117) ELSE f : f \in F111 }
        F120 == { IF Ok(f) THEN S120(f) ELSE f : f \in F113 }
        F121 == { IF Ok(f) THEN S121(f) ELSE f : f \in F120 }
        F123 == { IF Ok(f) THEN S123(f) ELSE f : f \in F121 }
    IN CHOOSE f \in F123 : TRUE

-----------------------------------------------------------------------------
(* DynamicMultiheadAttention.forward *)

HasAttr(self, name) == name \in Attributes(self)

\* B, N = x.shape(0), x.shape1(1): x.shape is a torch.Size, which is not
\* callable
D161(f) == Raise(f, "TypeError", 161)

\* num_heads = self.mutable_num_heads.current_choice.to(self.weight.device):
\* the choice bound to "num_heads" is read, then self.weight is looked up
D162(f) ==
    IF "num_heads" \notin DOMAIN f.self.mutable_attrs
    THEN Raise(f, "AttributeError", 162)
    ELSE LET g == [f EXCEPT !.nread = @ + 1]
         IN IF ~HasAttr(f.self, "weight") THEN Raise(g, "AttributeError", 162)
            ELSE [g EXCEPT !.heads = f.self.mutable_attrs["num_heads"]]

\* self._get_dynamic_params(linear): the first num_heads * head_dims rows of
\* the weight and of the bias, for the choice currently bound
GetDynamicParams(f, w) ==
    [rows |-> f.self.mutable_attrs["num_heads"] * f.self.head_dims,
     cols |-> w.cols, seed |-> w.seed]

\* q_w, q_b = self._get_dynamic_params(self.w_qs)
\* k_w, k_b = self._get_dynamic_params(self.k_qs)
\* v_w, v_b = self._get_dynamic_params(self.v_qs)
D165(f) ==
    IF ~HasAttr(f.self, "k_qs") THEN Raise([f EXCEPT !.nread = @ + 1], "AttributeError", 166)
    ELSE IF ~HasAttr(f.self, "v_qs")
    THEN Raise([f EXCEPT !.nread = @ + 2], "AttributeError", 167)
    ELSE [f EXCEPT !.nread = @ + 3]

\* q = F.linear(x, q_w, q_b).view(B, N, num_heads, self.unit), and k, v alike:
\* F.linear is applied first (RuntimeError when the widths differ), then the
\* arguments of view are evaluated, self.unit among them
D169(f) ==
    LET q_w == GetDynamicParams(f, f.self.w_qs)
        k_w == GetDynamicParams(f, f.self.w_ks)
        v_w == GetDynamicParams(f, f.self.w_vs)
    IN IF LinearShape(f.x, q_w.rows, q_w.cols) = <<>> THEN Raise(f, "RuntimeError", 169)
       ELSE IF ~HasAttr(f.self, "unit") THEN Raise(f, "AttributeError", 169)
       ELSE LET Q == { Project(f, "w_qs", q_w, f.heads, f.self.head_dims, 169) }
                K == { IF Ok(g) THEN Project(g, "w_ks", k_w, f.heads, f.self.head_dims, 170)
                       ELSE g : g \in Q }
                V == { IF Ok(g) THEN Project(g, "w_vs", v_w, f.heads, f.self.head_dims, 171)
                       ELSE g : g \in K }
            IN CHOOSE g \in V : TRUE

\* x = self.proj(x)
D193(f) == Proj(f, 193)

\* x = self.proj_drop(x),   -- the trailing comma makes x a 1-tuple
D194(f) == [ProjDrop(f) EXCEPT !.tuple = TRUE]

DynamicMultiheadAttentionForward(self, x) ==
    LET F161 == { D161(f) : f \in {Frame(self, x)} }
        F162 == { IF Ok(f) THEN D162(f) ELSE f : f \in F161 }
        F165 == { IF Ok(f) THEN D165(f) ELSE f : f \in F162 }
        F169 == { IF Ok(f) THEN D169(f) ELSE f : f \in F165 }
        F173 == { IF Ok(f) THEN TransposeHeads(f) ELSE f : f \in F169 }
        F175 == { IF Ok(f) THEN Scores(f, 175) ELSE f : f \in F173 }
        F177 == { IF Ok(f) /\ self.relative_position THEN RelPosK(f, f.heads, 179) ELSE f : f \in F175 }
        F183 == { IF Ok(f) THEN Softmax(f) ELSE f : f \in F177 }
        F184 == { IF Ok(f) THEN AttnDrop(f) ELSE f : f \in F183 }
        F185 == { IF Ok(f) THEN Aggregate(f, -1, 185) ELSE f : f \in F184 }
        F187 == { IF Ok(f) /\ self.relative_position THEN RelPosV(f, f.heads, 190) ELSE f : f \in F185 }
        F193 == { IF Ok(f) THEN D193(f) ELSE f : f \in F187 }
        F194 == { IF Ok(f) THEN D194(f) ELSE f : f \in F193 }
    IN CHOOSE f \in F194 : TRUE

-----------------------------------------------------------------------------
(* The state machine *)

\* what a forward call left: "none" before any call, "ok" with the shape of
\* the returned tensor, or "raise" with the exception
NoResult ==
    [st |-> "none", x |-> <<>>, shape |-> <<>>, trace |-> <<>>,
     rows |-> [w_qs |-> 0, w_ks |-> 0, w_vs |-> 0, proj |-> 0],
     heads |-> 0, nread |-> 0, err |-> "", line |-> 0, tuple |-> FALSE]

Result(f) ==
    [st |-> IF Ok(f) THEN "ok" ELSE "raise", x |-> f.arg,
     shape |-> IF Ok(f) THEN f.x ELSE <<>>, trace |-> f.trace, rows |-> f.rows,
     heads |-> f.heads, nread |-> f.nread, err |-> f.err, line |-> f.line,
     tuple |-> f.tuple]

IsModule(m) == m.cls \in {"MultiheadAttention", "DynamicMultiheadAttention"}

\* the inputs of forward: (batch, seq_len, width), of the module's input
\* width or of another one
Inputs(m) == { <<BatchSize, SeqLen, d>> : d \in {m.input_dims, 32} }

\* the candidate head counts of a mutable bound to a module
HeadChoices(m) == { h \in NumHeadsChoices : h <= m.num_heads }

AsBuilt(m) == IF IsModule(m) THEN Parameters(m) ELSE NoModule

Init ==
    /\ static = NoModule
    /\ dyn = NoModule
    /\ sres = NoResult
    /\ dres = NoResult
    /\ built = [static |-> NoModule, dyn |-> NoModule]

\* m = MultiheadAttention(embed_dims, num_heads, ...)
ConstructStatic ==
    \E c \in Configs, opt \in Options, seed \in 1..MaxSeed :
        /\ static' = MultiheadAttentionInit(c[1], c[2], opt, seed)
        /\ built' = [built EXCEPT !.static = AsBuilt(static')]
        /\ sres' = NoResult
        /\ UNCHANGED <<dyn, dres>>

\* m = DynamicMultiheadAttention(embed_dims, num_heads, ...)
ConstructDynamic ==
    \E c \in Configs, opt \in Options, seed \in 1..MaxSeed :
        /\ dyn' = DynamicMultiheadAttentionInit(c[1], c[2], opt, seed)
        /\ built' = [built EXCEPT !.dyn = AsBuilt(dyn')]
        /\ dres' = NoResult
        /\ UNCHANGED <<static, sres>>

\* d = DynamicMultiheadAttention.convert_from(m)
ConvertFrom ==
    /\ IsModule(static)
    /\ \E seed \in 1..MaxSeed : dyn' = convert_from(static, seed)
    /\ built' = [built EXCEPT !.dyn = AsBuilt(dyn')]
    /\ dres' = NoResult
    /\ UNCHANGED <<static, sres>>

\* a mutable is bound to "num_heads", its choice the maximal one
RegisterMutable ==
    /\ IsModule(dyn)
    /\ "num_heads" \notin DOMAIN dyn.mutable_attrs
    /\ dyn' = [dyn EXCEPT !.mutable_attrs = [num_heads |-> dyn.num_heads]]
    /\ dres' = NoResult
    /\ UNCHANGED <<static, sres, built>>

\* the search changes the current choice of the bound mutable
SetChoice ==
    /\ IsModule(dyn)
    /\ "num_heads" \in DOMAIN dyn.mutable_attrs
    /\ \E c \in HeadChoices(dyn) :
          /\ c # dyn.mutable_attrs["num_heads"]
          /\ dyn' = [dyn EXCEPT !.mutable_attrs = [num_heads |-> c]]
    /\ dres' = NoResult
    /\ UNCHANGED <<static, sres, built>>

\* y = m(x) on the static module
StaticForward ==
    /\ IsModule(static)
    /\ \E x \in Inputs(static) :
          \E f \in {MultiheadAttentionForward(static, x)} :
             /\ static' = f.self
             /\ sres' = Result(f)
    /\ UNCHANGED <<dyn, dres, built>>

\* y = d(x) on the dynamic module
DynamicForward ==
    /\ IsModule(dyn)
    /\ \E x \in Inputs(dyn) :
          \E f \in {DynamicMultiheadAttentionForward(dyn, x)} :
             /\ dyn' = f.self
             /\ dres' = Result(f)
    /\ UNCHANGED <<static, sres, built>>

Next ==
    \/ ConstructStatic
    \/ ConstructDynamic
    \/ ConvertFrom
    \/ RegisterMutable
    \/ SetChoice
    \/ StaticForward
    \/ DynamicForward

Spec == Init /\ [][Next]_vars

-----------------------------------------------------------------------------
(* Properties *)

HasOp(r, op) == \E i \in 1..Len(r.trace) : r.trace[i] = op

Index(r, op) == CHOOSE i \in 1..Len(r.trace) : r.trace[i] = op

Once(r, op) == Cardinality({ i \in 1..Len(r.trace) : r.trace[i] = op }) = 1

Bound(m) == "num_heads" \in DOMAIN m.mutable_attrs

\* the head count the dynamic module is configured to
EffectiveHeads(m) == IF Bound(m) THEN m.mutable_attrs["num_heads"] ELSE m.num_heads

\* a forward call was made on m with an input of the configured width, m
\* being a module whose heads tile its embedding
ValidCall(m, r) ==
    /\ IsModule(m)
    /\ r.st # "none"
    /\ r.x[3] = m.input_dims
    /\ m.num_heads * m.head_dims = m.embed_dims

\* both modules were built with the same hyperparameters and hold the same
\* weights and tables, the dynamic one at its maximal choice, and both were
\* called on the same input
SameModuleSameInput ==
    /\ ValidCall(static, sres)
    /\ ValidCall(dyn, dres)
    /\ sres.x = dres.x
    /\ Hyperparameters(static) = Hyperparameters(dyn)
    /\ \A n \in {"w_qs", "w_ks", "w_vs", "proj", "rel_pos_embed_k", "rel_pos_embed_v"} :
          Parameters(static)[n].seed = Parameters(dyn)[n].seed
    /\ EffectiveHeads(dyn) = dyn.num_heads

\* what a call returned, or the exception it raised
Outcome(r) == [st |-> r.st, shape |-> r.shape, trace |-> r.trace,
               tuple |-> r.tuple, err |-> r.err]

\* C1: at its maximal choice the dynamic module returns what the static module
\* with the same hyperparameters and weights returns on the same input.
C1_Equivalence == SameModuleSameInput => Outcome(dres) = Outcome(sres)

\* C2: forward returns one tensor of shape (batch, seq_len, E), E being
\* embed_dims for the static module and the effective width for the dynamic one.
C2_OutputShape ==
    /\ (ValidCall(static, sres) /\ sres.st = "ok")
          => (sres.shape = <<sres.x[1], sres.x[2], static.embed_dims>> /\ ~sres.tuple)
    /\ ValidCall(dyn, dres)
          => /\ dres.st = "ok"
             /\ ~dres.tuple
             /\ dres.shape = <<dres.x[1], dres.x[2], EffectiveHeads(dyn) * dyn.head_dims>>

\* C3: configured to H1 < H_max heads, the dynamic forward returns an output
\* that reads only the first H1 * head_dims rows of every projection weight.
C3_PrefixRowsOnly ==
    (ValidCall(dyn, dres) /\ Bound(dyn) /\ EffectiveHeads(dyn) < dyn.num_heads)
        => /\ dres.st = "ok"
           /\ \A n \in {"w_qs", "w_ks", "w_vs", "proj"} :
                 /\ dres.rows[n] > 0
                 /\ dres.rows[n] <= EffectiveHeads(dyn) * dyn.head_dims

\* C4: no constructor call with embed_dims not divisible by num_heads yields a
\* module; every module has num_heads * head_dims = embed_dims.
C4_ConfigRejected ==
    \A m \in {static, dyn} :
        IsModule(m) => /\ m.embed_dims % m.num_heads = 0
                       /\ m.num_heads * m.head_dims = m.embed_dims

\* C5: a dynamic forward call reads the bound choice once, at its start, and
\* every reshape of the call uses that value.
C5_ChoiceReadOnce ==
    (ValidCall(dyn, dres) /\ Bound(dyn))
        => (dres.nread = 1 /\ dres.heads = dyn.mutable_attrs["num_heads"])

\* C6: the dynamic forward runs with the bound choice when "num_heads" is
\* bound and with the configured num_heads when mutable_attrs is empty.
C6_EffectiveHeadCount ==
    ValidCall(dyn, dres) => (dres.st = "ok" /\ dres.heads = EffectiveHeads(dyn))

\* C7: after any sequence of forward calls (static or dynamic) and changes of
\* the mutable choice, every projection weight and relative position table of
\* both modules is as the constructor left it.
C7_ParametersUnchanged ==
    /\ IsModule(static) => Parameters(static) = built.static
    /\ IsModule(dyn) => Parameters(dyn) = built.dyn

\* C7 witness: both modules have completed a forward call, the dynamic one
\* after its choice was changed to fewer heads.
C7_Witness ==
    /\ IsModule(static) /\ sres.st = "ok" /\ HasOp(sres, "proj")
    /\ IsModule(dyn) /\ dres.st # "none"
    /\ Bound(dyn) /\ EffectiveHeads(dyn) < dyn.num_heads

\* C8: convert_from(m) yields a dynamic module whose structural
\* hyperparameters are those of m.
C8_ConvertKeepsHyperparameters ==
    (IsModule(dyn) /\ dyn.converted_from # NoModule)
        => Hyperparameters(dyn) = dyn.converted_from

\* C9: the dynamic forward adds the value shortcut exactly when the static
\* forward of the same configuration does.
C9_ValueShortcutPreserved ==
    (SameModuleSameInput /\ sres.st = "ok")
        => (HasOp(dres, "v_shortcut") <=> HasOp(sres, "v_shortcut"))

\* softmax, attention dropout, output projection, projection dropout and the
\* outer dropout each occur once, in this order
Ordered(r) ==
    /\ \A op \in {"softmax", "attn_drop", "proj", "proj_drop", "out_drop"} : Once(r, op)
    /\ Index(r, "softmax") < Index(r, "attn_drop")
    /\ Index(r, "attn_drop") < Index(r, "proj")
    /\ Index(r, "proj") < Index(r, "proj_drop")
    /\ Index(r, "proj_drop") < Index(r, "out_drop")

\* C10: in every forward call of both variants the output projection, the
\* projection dropout and the outer dropout follow softmax and attention
\* dropout in this order, each applied once.
C10_StepOrder ==
    /\ (ValidCall(static, sres) /\ sres.st = "ok") => Ordered(sres)
    /\ ValidCall(dyn, dres) => Ordered(dres)

====
